---- MODULE Spec2Model ----
(***************************************************************************)
(* AtomisticActiveLearner (amptorch/active_learning/learner.py): the       *)
(* constructor, the learn loop and add_data, as a state machine.  The      *)
(* collaborators imported by learner.py (query strategy, train_calcs,      *)
(* atomistic_method, termination_criteria, neb_query, bootstrap_ensemble,  *)
(* write_to_db) are calls that either return or raise.                     *)
(***************************************************************************)
EXTENDS Integers, Sequences, FiniteSets, TLC

\* ------------------------------------------------------------------ bounds
\* number of structures in the initial dataset
InitSize == 2
\* largest valid ensemble size tried
MaxEnsemble == 3
\* largest configured al_convergence["num_iterations"]
MaxNumIterations == 2
\* cap on self.iteration (final mode has no cap of its own)
MaxLoop == 3
\* samples_to_retrain: the largest batch a query returns
MaxBatch == 2
\* number of calls of learn on one learner
MaxCalls == 2
\* number of calls of add_data made from outside learn
MaxExt == 1

\* ------------------------------------------------------------ state
VARIABLES
    \* constructor argument and configuration (training_params["al_convergence"])
    ensemble_arg, method, missing, num_iterations, convergence_check,
    \* fields of the learner
    ensemble, training_data, parent_dataset, parent_calls, iteration,
    \* locals of learn
    f_terminate, terminate, sample_candidates, convergence_criteria_list,
    queried_images, trained_calc, report,
    \* control: position, cause of an abort, add_data's loop and its caller
    pc, abortCause, pending, ret,
    \* history: structures sent to the oracle, structures created, structures
    \* merged by learn, counter increments of the Evaluate phase, phases run in
    \* the current call, bootstrap_ensemble calls, failed database write,
    \* calls of learn, outside calls of add_data
    oracle_sent, created, merged, eval_counted,
    n_train, n_sim, n_eval, n_query,
    bootstrap_calls, db_failed, calls, ext_adds,
    \* history: the state add_data was entered in and the batch it was given;
    \* the training data the last Train phase was given
    entry, trained_on

cfgVars == <<ensemble_arg, method, missing, num_iterations, convergence_check>>
fieldVars == <<ensemble, training_data, parent_dataset, parent_calls, iteration>>
localVars == <<f_terminate, terminate, sample_candidates,
               convergence_criteria_list, queried_images, trained_calc, report>>
ctlVars == <<pc, abortCause, pending, ret>>
histVars == <<oracle_sent, created, merged, eval_counted, n_train, n_sim,
              n_eval, n_query, bootstrap_calls, db_failed, calls, ext_adds>>
auxVars == <<entry, trained_on>>
vars == <<cfgVars, fieldVars, localVars, ctlVars, histVars, auxVars>>

\* ------------------------------------------------------------ values
\* A Python value passed as `ensemble`: its type and its numeric value
\* (bool False/True are 0/1; a float's value is given in halves, 5 = 2.5).
PyFalse == [t |-> "bool", v |-> 0]
PyTrue == [t |-> "bool", v |-> 1]
PyInt(n) == [t |-> "int", v |-> n]
PyFloat(halves) == [t |-> "float", v |-> halves]

EnsembleArgs ==
    {PyFalse, PyTrue, PyInt(1), PyInt(0 - 1), PyFloat(5)}
        \cup {PyInt(n) : n \in 2..MaxEnsemble}

\* `if ensemble:` -- Python truthiness of a bool, int or float
Truthy(e) == e.v # 0

\* `isinstance(ensemble, int)` -- bool is a subclass of int, float is not
IsInstanceInt(e) == e.t \in {"int", "bool"}

\* variant of ValidEnsemble with the comparison off by one: `ensemble > 0`
ValidEnsembleOffByOne(e) == IsInstanceInt(e) /\ e.v > 0

\* `isinstance(ensemble, int) and ensemble > 1`
ValidEnsemble(e) == IsInstanceInt(e) /\ e.v > 1

Methods == {"iter", "final", "neb_iter", "bogus"}
Params == {"none", "method", "num_iterations", "energy_tol", "force_tol",
           "convergence_check"}

\* keys of al_convergence each branch of the dispatch reads
IterKeys == {"num_iterations", "energy_tol", "convergence_check"}
FinalKeys == {"energy_tol", "force_tol"}
NebKeys == {"num_iterations", "energy_tol"}

MaxMsg == "Terminating! Total number of iterations reached"
ConvMsg == "Terminating! Convergence criteria has been met"

Unbound == 0 - 1

InitialData == [i \in 1..InitSize |-> i]

\* a batch of k new structures
Batch(k) == [i \in 1..k |-> created + i]

IsPrefix(s, t) == Len(s) <= Len(t) /\ SubSeq(t, 1, Len(s)) = s

\* ------------------------------------------------------------ collaborators
\* bootstrap_ensemble(training_data, n_ensembles=n): the n members and the parent
\* (a member records the call that resampled it, the size of the parent it was
\* resampled from and the call that produced the members handed in)
BootstrapInit(data, n, c) ==
    [td |-> [i \in 1..n |->
                [call |-> c, parentLen |-> Len(data), prev |-> 0]],
     pd |-> data]

\* bootstrap_ensemble(parent_dataset, training_data, query, n_ensembles=n)
BootstrapAdd(pd, td, query, n, c) ==
    [td |-> [i \in 1..n |->
                [call |-> c, parentLen |-> Len(pd) + 1, prev |-> td[1].call]],
     pd |-> Append(pd, query)]

\* termination_criteria(method="iter"): the terminate flags it may return
IterTerminate(current_i, total_i) == {current_i >= total_i}

\* termination_criteria(method="final"): the error is below the tolerance or not
FinalTerminate == BOOLEAN

\* neb_query: the path meets the tolerance, or the iterations are used up
NebTerminate(current_i, total_i) ==
    IF current_i >= total_i THEN {TRUE} ELSE BOOLEAN

Flag(b) == IF b THEN "True" ELSE "False"

\* ------------------------------------------------------------ initial state
Init ==
    /\ ensemble_arg \in EnsembleArgs
    /\ method \in Methods
    /\ missing \in Params
    /\ num_iterations \in 0..MaxNumIterations
    /\ convergence_check \in BOOLEAN
    /\ ensemble = PyFalse
    /\ training_data = <<>>
    /\ parent_dataset = <<>>
    /\ parent_calls = 0
    /\ iteration = 0
    /\ f_terminate = FALSE
    /\ terminate = "unbound"
    /\ sample_candidates = Unbound
    /\ convergence_criteria_list = <<>>
    /\ queried_images = <<>>
    /\ trained_calc = Unbound
    /\ report = <<>>
    /\ pc = "new"
    /\ abortCause = "none"
    /\ pending = <<>>
    /\ ret = "none"
    /\ oracle_sent = 0
    /\ created = InitSize
    /\ merged = 0
    /\ eval_counted = 0
    /\ n_train = 0
    /\ n_sim = 0
    /\ n_eval = 0
    /\ n_query = 0
    /\ bootstrap_calls = 0
    /\ db_failed = FALSE
    /\ calls = 0
    /\ ext_adds = 0
    /\ entry = [pd |-> <<>>, q |-> <<>>, calls |-> 0]
    /\ trained_on = <<>>

\* add_data is entered with batch q
Entry(q) == [pd |-> parent_dataset, q |-> q, calls |-> bootstrap_calls]

\* an exception leaves learn (or the constructor): nothing else changes
Raise(cause) ==
    /\ pc' = "aborted"
    /\ abortCause' = cause

\* ------------------------------------------------------------ __init__
Construct ==
    /\ pc = "new"
    /\ UNCHANGED auxVars
    /\ ensemble' = ensemble_arg
    /\ parent_calls' = 0
    /\ iteration' = 0
    /\ IF Truthy(ensemble_arg)
       THEN IF ~ValidEnsemble(ensemble_arg)
            THEN \* the assert of line 69 fails
                 /\ pc' = "ctor_failed"
                 /\ abortCause' = "assert"
                 /\ training_data' = InitialData
                 /\ UNCHANGED <<parent_dataset, bootstrap_calls>>
            ELSE \/ \* bootstrap_ensemble raises
                    /\ pc' = "ctor_failed"
                    /\ abortCause' = "bootstrap"
                    /\ training_data' = InitialData
                    /\ bootstrap_calls' = bootstrap_calls + 1
                    /\ UNCHANGED parent_dataset
                 \/ LET r == BootstrapInit(InitialData, ensemble_arg.v,
                                           bootstrap_calls + 1)
                    IN  /\ training_data' = r.td
                        /\ parent_dataset' = r.pd
                        /\ bootstrap_calls' = bootstrap_calls + 1
                        /\ pc' = "idle"
                        /\ UNCHANGED abortCause
       ELSE \* self.parent_dataset = self.training_data (the same list)
            /\ training_data' = InitialData
            /\ parent_dataset' = InitialData
            /\ pc' = "idle"
            /\ UNCHANGED <<abortCause, bootstrap_calls>>
    /\ UNCHANGED <<cfgVars, localVars, pending, ret, oracle_sent, created,
                   merged, eval_counted, n_train, n_sim, n_eval, n_query,
                   db_failed, calls, ext_adds>>

\* ------------------------------------------------------------ learn
\* lines 80-88: read the configuration, reset the locals
LearnStart ==
    /\ pc \in {"idle", "done"}
    /\ calls < MaxCalls
    /\ calls' = calls + 1
    /\ UNCHANGED entry
    /\ IF missing = "method"
       THEN /\ Raise("config")
            /\ UNCHANGED <<localVars, n_train, n_sim, n_eval, n_query,
                           trained_on>>
       ELSE /\ pc' = "loop_top"
            /\ convergence_criteria_list' = <<>>
            /\ f_terminate' = FALSE
            /\ terminate' = "unbound"
            /\ sample_candidates' = Unbound
            /\ queried_images' = <<>>
            /\ trained_calc' = Unbound
            /\ trained_on' = <<>>
            /\ report' = <<>>
            /\ n_train' = 0
            /\ n_sim' = 0
            /\ n_eval' = 0
            /\ n_query' = 0
            /\ UNCHANGED abortCause
    /\ UNCHANGED <<cfgVars, fieldVars, pending, ret, oracle_sent, created,
                   merged, eval_counted, bootstrap_calls, db_failed, ext_adds>>

\* line 92: the guard of the Query phase
QueryGuard(it, m) == it > 0 /\ m # "neb_iter"

\* lines 92-98: the Query phase calls the query strategy
QueryPhase ==
    /\ pc = "loop_top"
    /\ UNCHANGED auxVars
    /\ ~f_terminate
    /\ QueryGuard(iteration, method)
    /\ iteration < MaxLoop
    /\ IF sample_candidates = Unbound
       THEN \* sample_candidates is read before it is assigned
            /\ Raise("unbound")
            /\ UNCHANGED <<queried_images, ret, oracle_sent, created, n_query>>
       ELSE \/ /\ Raise("query")
               /\ UNCHANGED <<queried_images, ret, oracle_sent, created, n_query>>
            \/ \E k \in 0..MaxBatch :
                 /\ queried_images' = Batch(k)
                 /\ created' = created + k
                 /\ oracle_sent' = oracle_sent + k
                 /\ n_query' = n_query + 1
                 /\ ret' = "query"
                 /\ pc' = "write_db"
                 /\ UNCHANGED abortCause
    /\ UNCHANGED <<cfgVars, fieldVars, f_terminate, terminate,
                   sample_candidates, convergence_criteria_list, trained_calc,
                   report, pending, merged, eval_counted, n_train, n_sim,
                   n_eval, bootstrap_calls, db_failed, calls, ext_adds>>

\* lines 99 and 170: write_to_db(queries_db, queried_images), no handler around it
WriteToDb ==
    /\ pc = "write_db"
    /\ UNCHANGED trained_on
    /\ \/ /\ Raise("persistence")
          /\ db_failed' = TRUE
          /\ UNCHANGED <<pending, entry>>
       \/ /\ pc' = "add_data"
          /\ pending' = queried_images
          /\ entry' = Entry(queried_images)
          /\ UNCHANGED <<abortCause, db_failed>>
    /\ UNCHANGED <<cfgVars, fieldVars, localVars, ret, oracle_sent, created,
                   merged, eval_counted, n_train, n_sim, n_eval, n_query,
                   bootstrap_calls, calls, ext_adds>>

\* ------------------------------------------------------------ add_data
\* variant of Extend that appends the batch as one element (list.append)
ExtendNested(td, q) == Append(td, 0)

\* variant of Extend that assigns the batch instead of adding it
ExtendOverwrite(td, q) == q

\* variant of Extend that puts the new structures in front
ExtendInFront(td, q) == q \o td

\* line 195: self.training_data += queried_images
Extend(td, q) == td \o q

\* variant of CountQueried that counts one call per batch
CountQueriedOnce(n, q) == n + 1

\* lines 101 and 172: self.parent_calls += len(queried_images)
CountQueried(n, q) == n + Len(q)

\* add_data was called by learn (and not from outside)
InLearn == ret \in {"query", "iter", "neb"}

\* `return self.parent_dataset, self.training_data`, and the caller's code up to
\* its next call
AddDataReturn ==
    /\ pending' = <<>>
    /\ CASE ret = "query" ->
              /\ parent_calls' = CountQueried(parent_calls, queried_images)
              /\ pc' = "train"
              /\ UNCHANGED eval_counted
         [] ret = "neb" ->
              /\ parent_calls' = CountQueried(parent_calls, queried_images)
              /\ eval_counted' = eval_counted + Len(queried_images)
              /\ pc' = "loop_end"
         [] ret = "iter" ->
              /\ pc' = "loop_end"
              /\ UNCHANGED <<parent_calls, eval_counted>>
         [] ret = "ext_idle" ->
              /\ pc' = "idle"
              /\ UNCHANGED <<parent_calls, eval_counted>>
         [] ret = "ext_done" ->
              /\ pc' = "done"
              /\ UNCHANGED <<parent_calls, eval_counted>>

\* variant of ParentAfterExtend for a `+` that builds a new list: the parent
\* keeps the old one
ParentLeftBehind(pd, extended) == pd

\* lines 77 and 195: self.parent_dataset is the list self.training_data is, and
\* `+=` extends that list in place, so the parent is the extended list
ParentAfterExtend(pd, extended) == extended

\* lines 194-196, ensembling disabled: parent_dataset is the same list object
AddDataExtend ==
    /\ pc = "add_data"
    /\ UNCHANGED auxVars
    /\ ~Truthy(ensemble)
    /\ training_data' = Extend(training_data, pending)
    /\ parent_dataset' = ParentAfterExtend(parent_dataset, training_data')
    /\ merged' = IF InLearn THEN merged + Len(pending) ELSE merged
    /\ AddDataReturn
    /\ UNCHANGED <<cfgVars, ensemble, iteration, localVars, abortCause, ret,
                   oracle_sent, created, n_train, n_sim, n_eval, n_query,
                   bootstrap_calls, db_failed, calls, ext_adds>>

\* variant of ParentArg that hands every call the parent add_data was entered with
ParentArgAtEntry(current, atEntry) == atEntry

\* line 189: the parent handed to bootstrap_ensemble is the field
\* self.parent_dataset as the previous call of the loop left it
ParentArg(current, atEntry) == current

\* variant of MembersAfter that leaves the field self.training_data as it was
MembersKept(old, r) == old

\* line 188: self.training_data is the first of the pair bootstrap_ensemble
\* returns
MembersAfter(old, r) == r.td

\* lines 187-193, ensembling enabled: one bootstrap_ensemble call per query
AddDataLoop ==
    /\ pc = "add_data"
    /\ UNCHANGED auxVars
    /\ Truthy(ensemble)
    /\ pending # <<>>
    /\ bootstrap_calls' = bootstrap_calls + 1
    /\ \/ /\ Raise("bootstrap")
          /\ UNCHANGED <<training_data, parent_dataset, pending, merged>>
       \/ LET r == BootstrapAdd(ParentArg(parent_dataset, entry.pd),
                                training_data, Head(pending), ensemble.v,
                                bootstrap_calls + 1)
          IN  /\ training_data' = MembersAfter(training_data, r)
              /\ parent_dataset' = r.pd
              /\ pending' = Tail(pending)
              /\ merged' = IF InLearn THEN merged + 1 ELSE merged
              /\ UNCHANGED <<pc, abortCause>>
    /\ UNCHANGED <<cfgVars, ensemble, parent_calls, iteration, localVars, ret,
                   oracle_sent, created, eval_counted, n_train, n_sim, n_eval,
                   n_query, db_failed, calls, ext_adds>>

\* line 196, ensembling enabled: the loop is over
AddDataDone ==
    /\ pc = "add_data"
    /\ UNCHANGED auxVars
    /\ Truthy(ensemble)
    /\ pending = <<>>
    /\ AddDataReturn
    /\ UNCHANGED <<cfgVars, ensemble, training_data, parent_dataset, iteration,
                   localVars, abortCause, ret, oracle_sent, created, merged,
                   n_train, n_sim, n_eval, n_query, bootstrap_calls, db_failed,
                   calls, ext_adds>>

\* add_data called on the learner from outside learn
ExternalAddData ==
    /\ pc \in {"idle", "done"}
    /\ ext_adds < MaxExt
    /\ ext_adds' = ext_adds + 1
    /\ \E k \in 0..MaxBatch :
         /\ pending' = Batch(k)
         /\ entry' = Entry(Batch(k))
         /\ created' = created + k
    /\ UNCHANGED trained_on
    /\ ret' = IF pc = "idle" THEN "ext_idle" ELSE "ext_done"
    /\ pc' = "add_data"
    /\ UNCHANGED <<cfgVars, fieldVars, localVars, abortCause, oracle_sent,
                   merged, eval_counted, n_train, n_sim, n_eval, n_query,
                   bootstrap_calls, db_failed, calls>>

\* ------------------------------------------------------------ Train, Simulate
\* lines 104-109: train_calcs on self.training_data
Train ==
    /\ \/ pc = "train"
       \/ /\ pc = "loop_top"
          /\ ~f_terminate
          /\ ~QueryGuard(iteration, method)
          /\ iteration < MaxLoop
    /\ UNCHANGED entry
    /\ \/ /\ Raise("trainer")
          /\ UNCHANGED <<trained_calc, trained_on, n_train>>
       \/ /\ trained_calc' = iteration
          /\ trained_on' = training_data
          /\ n_train' = n_train + 1
          /\ pc' = "simulate"
          /\ UNCHANGED abortCause
    /\ UNCHANGED <<cfgVars, fieldVars, f_terminate, terminate,
                   sample_candidates, convergence_criteria_list,
                   queried_images, report, pending, ret, oracle_sent, created,
                   merged, eval_counted, n_sim, n_eval, n_query,
                   bootstrap_calls, db_failed, calls, ext_adds>>

\* line 120: self.iteration += 1
NextIteration(it) == it + 1

\* lines 111-120: run the atomistic method, collect the trajectory, count
Simulate ==
    /\ pc = "simulate"
    /\ UNCHANGED auxVars
    /\ \/ /\ Raise("simulate")
          /\ UNCHANGED <<sample_candidates, n_sim, iteration>>
       \/ /\ sample_candidates' = iteration
          /\ n_sim' = n_sim + 1
          /\ iteration' = NextIteration(iteration)
          /\ pc' = "evaluate"
          /\ UNCHANGED abortCause
    /\ UNCHANGED <<cfgVars, ensemble, training_data, parent_dataset,
                   parent_calls, f_terminate, terminate,
                   convergence_criteria_list, queried_images, trained_calc,
                   report, pending, ret, oracle_sent, created, merged,
                   eval_counted, n_train, n_query, n_eval, bootstrap_calls,
                   db_failed, calls, ext_adds>>

\* ------------------------------------------------------------ Evaluate
\* variant of CurrentI that passes the next iteration's number
CurrentIAhead(it) == it + 1

\* lines 127 and 157: "current_i": self.iteration
CurrentI(it) == it

\* variant of CheckEnabled that skips the check once the run terminates
CheckUnlessTerminating(cc, t) == cc /\ ~t

\* variant of CheckEnabled that runs the check whatever the configuration says
CheckAlways(cc, t) == TRUE

\* line 137: `if al_convergence["convergence_check"] == True`, whatever the
\* terminate flag t is
CheckEnabled(cc, t) == cc

\* lines 125-140: method == "iter"
EvaluateIter ==
    /\ pc = "evaluate"
    /\ method = "iter"
    /\ UNCHANGED trained_on
    /\ IF missing \in IterKeys
       THEN \* KeyError while termination_args is built
            /\ Raise("config")
            /\ UNCHANGED <<terminate, convergence_criteria_list, n_eval,
                           parent_calls, eval_counted, oracle_sent, created,
                           pending, entry, ret>>
       ELSE \/ /\ Raise("evaluator")
               /\ UNCHANGED <<terminate, convergence_criteria_list, n_eval,
                              parent_calls, eval_counted, oracle_sent, created,
                              pending, entry, ret>>
            \/ \E t \in IterTerminate(CurrentI(iteration), num_iterations) :
                 /\ terminate' = Flag(t)
                 /\ convergence_criteria_list' =
                        Append(convergence_criteria_list, iteration)
                 /\ n_eval' = n_eval + 1
                 /\ UNCHANGED abortCause
                 \* with convergence_check the evaluator sends its test
                 \* structure to the oracle and returns it
                 /\ oracle_sent' =
                        IF convergence_check THEN oracle_sent + 1
                                             ELSE oracle_sent
                 /\ created' =
                        IF convergence_check THEN created + 1 ELSE created
                 /\ IF CheckEnabled(convergence_check, t)
                    THEN \* lines 138-140
                         /\ parent_calls' = parent_calls + 1
                         /\ eval_counted' = eval_counted + 1
                         /\ pending' = Batch(1)
                         /\ entry' = Entry(Batch(1))
                         /\ ret' = "iter"
                         /\ pc' = "add_data"
                    ELSE /\ pc' = "loop_end"
                         /\ UNCHANGED <<parent_calls, eval_counted, pending,
                                        entry, ret>>
    /\ UNCHANGED <<cfgVars, ensemble, training_data, parent_dataset, iteration,
                   f_terminate, sample_candidates, queried_images,
                   trained_calc, report, merged, n_train, n_sim, n_query,
                   bootstrap_calls, db_failed, calls, ext_adds>>

\* variant of CountEvaluation that forgets the oracle call
CountEvaluationNone(n) == n

\* line 149: self.parent_calls += 1
CountEvaluation(n) == n + 1

\* lines 142-153: method == "final"; the counter moves before the evaluator runs
EvaluateFinal ==
    /\ pc = "evaluate"
    /\ UNCHANGED auxVars
    /\ method = "final"
    /\ IF missing \in FinalKeys
       THEN /\ Raise("config")
            /\ UNCHANGED <<terminate, convergence_criteria_list, n_eval,
                           parent_calls, eval_counted, oracle_sent>>
       ELSE /\ parent_calls' = CountEvaluation(parent_calls)
            /\ eval_counted' = eval_counted + 1
            /\ \/ /\ Raise("evaluator")
                  /\ UNCHANGED <<terminate, convergence_criteria_list, n_eval,
                                 oracle_sent>>
               \/ \E t \in FinalTerminate :
                    /\ terminate' = Flag(t)
                    /\ convergence_criteria_list' =
                           Append(convergence_criteria_list, iteration)
                    /\ n_eval' = n_eval + 1
                    /\ oracle_sent' = oracle_sent + 1
                    /\ pc' = "loop_end"
                    /\ UNCHANGED abortCause
    /\ UNCHANGED <<cfgVars, ensemble, training_data, parent_dataset, iteration,
                   f_terminate, sample_candidates, queried_images,
                   trained_calc, report, pending, ret, created, merged,
                   n_train, n_sim, n_query, bootstrap_calls, db_failed, calls,
                   ext_adds>>

\* lines 155-169: method == "neb_iter"; neb_query returns the queried images
EvaluateNeb ==
    /\ pc = "evaluate"
    /\ UNCHANGED auxVars
    /\ method = "neb_iter"
    /\ IF missing \in NebKeys
       THEN /\ Raise("config")
            /\ UNCHANGED <<terminate, convergence_criteria_list, n_eval,
                           queried_images, oracle_sent, created, ret>>
       ELSE \/ /\ Raise("evaluator")
               /\ UNCHANGED <<terminate, convergence_criteria_list, n_eval,
                              queried_images, oracle_sent, created, ret>>
            \/ \E t \in NebTerminate(CurrentI(iteration), num_iterations),
                  k \in 0..MaxBatch :
                 /\ terminate' = Flag(t)
                 /\ convergence_criteria_list' =
                        Append(convergence_criteria_list, iteration)
                 /\ n_eval' = n_eval + 1
                 /\ queried_images' = Batch(k)
                 /\ created' = created + k
                 /\ oracle_sent' = oracle_sent + k
                 /\ ret' = "neb"
                 /\ pc' = "write_db"
                 /\ UNCHANGED abortCause
    /\ UNCHANGED <<cfgVars, fieldVars, f_terminate, sample_candidates,
                   trained_calc, report, pending, merged, eval_counted,
                   n_train, n_sim, n_query, bootstrap_calls, db_failed, calls,
                   ext_adds>>

\* lines 125-155: no branch of the dispatch matches the method name
EvaluateUnknown ==
    /\ pc = "evaluate"
    /\ UNCHANGED auxVars
    /\ method \notin {"iter", "final", "neb_iter"}
    /\ pc' = "loop_end"
    /\ UNCHANGED <<cfgVars, fieldVars, localVars, abortCause, pending, ret,
                   histVars>>

\* line 174: f_terminate = terminate (terminate is unbound if no branch ran)
LoopEnd ==
    /\ pc = "loop_end"
    /\ UNCHANGED auxVars
    /\ IF terminate = "unbound"
       THEN /\ Raise("config")
            /\ UNCHANGED f_terminate
       ELSE /\ f_terminate' = (terminate = "True")
            /\ pc' = "loop_top"
            /\ UNCHANGED abortCause
    /\ UNCHANGED <<cfgVars, fieldVars, terminate, sample_candidates,
                   convergence_criteria_list, queried_images, trained_calc,
                   report, pending, ret, histVars>>

\* ------------------------------------------------------------ exit
\* variant of Report with two independent tests instead of if/else
ReportBoth(it, total) ==
    (IF it >= total THEN <<MaxMsg>> ELSE <<>>) \o <<ConvMsg>>

\* lines 176-179: what is printed
Report(it, total) == IF it >= total THEN <<MaxMsg>> ELSE <<ConvMsg>>

\* lines 89 and 176-179: the loop is left and the reason is printed
Terminate ==
    /\ pc = "loop_top"
    /\ UNCHANGED auxVars
    /\ f_terminate
    /\ IF missing = "num_iterations"
       THEN /\ Raise("config")
            /\ UNCHANGED report
       ELSE /\ report' = Report(iteration, num_iterations)
            /\ pc' = "plot"
            /\ UNCHANGED abortCause
    /\ UNCHANGED <<cfgVars, fieldVars, f_terminate, terminate,
                   sample_candidates, convergence_criteria_list,
                   queried_images, trained_calc, pending, ret, histVars>>

\* lines 181-183 and 198-205: semilogy(arange(0, self.iteration), criteria)
\* raises when the two lengths differ; otherwise learn returns
ConvergencePlot ==
    /\ pc = "plot"
    /\ UNCHANGED auxVars
    /\ IF Len(convergence_criteria_list) # iteration
       THEN Raise("plot")
       ELSE /\ pc' = "done"
            /\ UNCHANGED abortCause
    /\ UNCHANGED <<cfgVars, fieldVars, localVars, pending, ret, histVars>>

\* ------------------------------------------------------------ specification
Next ==
    \/ Construct
    \/ LearnStart
    \/ QueryPhase
    \/ WriteToDb
    \/ AddDataExtend
    \/ AddDataLoop
    \/ AddDataDone
    \/ ExternalAddData
    \/ Train
    \/ Simulate
    \/ EvaluateIter
    \/ EvaluateFinal
    \/ EvaluateNeb
    \/ EvaluateUnknown
    \/ LoopEnd
    \/ Terminate
    \/ ConvergencePlot

Spec == Init /\ [][Next]_vars

\* ------------------------------------------------------------ properties
Reported(m) == \E i \in DOMAIN report : report[i] = m

\* learn has printed its reason (and may have returned)
Left == pc \in {"plot", "done"}

\* C1: in final mode the loop ends only on the evaluator's signal that the error
\* is below the tolerance, and the run then reports 'convergence criteria has
\* been met' and not 'total number of iterations reached', whatever the
\* iteration counter and num_iterations >= 1 are.
C1_FinalReportsConvergence ==
    (method = "final" /\ Left /\ missing = "none" /\ num_iterations >= 1)
        => (terminate = "True" /\ report = <<ConvMsg>>)

\* C2: in every mode, no run with num_iterations = N >= 1 executes more than N
\* iterations.
C2_AtMostNIterations ==
    (pc # "new" /\ missing = "none" /\ num_iterations >= 1)
        => n_train <= num_iterations

\* C2 restricted to the modes other than final (iter and neb_iter compare the
\* counter with num_iterations in their own criteria)
C2_AtMostNIterationsNotFinal ==
    method # "final" => C2_AtMostNIterations

\* C3: a run of learn that returns has reported exactly one of the two
\* termination reasons, never both and never neither.
C3_ExactlyOneReason ==
    pc = "done" =>
        /\ Len(report) = 1
        /\ Reported(MaxMsg) # Reported(ConvMsg)

\* C3 witness: the evaluator signalled convergence at the very iteration that
\* reaches num_iterations, and the run has returned with one reason.
C3_Witness ==
    /\ pc = "done"
    /\ method = "final"
    /\ terminate = "True"
    /\ iteration = num_iterations
    /\ report = <<MaxMsg>>

\* the phases of the current call of learn, for a run of N iterations
RanExactly(n) ==
    /\ iteration = n
    /\ n_train = n
    /\ n_sim = n
    /\ n_eval = n
    /\ n_query = n - 1

\* C4 (as stated): in iter mode on a fresh learner, with an evaluator that
\* terminates exactly when current_i >= total_i, a run with num_iterations = N
\* returns N after N Train, N Simulate, N Evaluate and N-1 Query phases.
C4_ExactlyNAnyN ==
    (pc = "done" /\ method = "iter" /\ calls = 1) => RanExactly(num_iterations)

\* C4 (amended): the same, for N >= 1.
C4_ExactlyN ==
    (pc = "done" /\ method = "iter" /\ calls = 1 /\ num_iterations >= 1)
        => RanExactly(num_iterations)

\* C4 witness: Scenario A, a returned iter run with num_iterations = 2.
C4_Witness ==
    /\ pc = "done"
    /\ method = "iter"
    /\ calls = 1
    /\ num_iterations = 2
    /\ n_query = 1

\* C5: at the end of every iteration and at exit, in every mode, parent_calls
\* equals the number of structures sent to the oracle by the Query phases and
\* the Evaluate phases so far.
C5_OracleCount ==
    (pc \in {"loop_top", "plot", "done"}) => parent_calls = oracle_sent

\* C5 witness: a run has returned after a Query phase that sent two structures.
C5_Witness ==
    /\ pc = "done"
    /\ n_query >= 1
    /\ Len(queried_images) = 2
    /\ parent_calls >= 2

\* C6: with ensembling disabled the TrainingSet is append-only (every step keeps
\* the old value as a prefix of the new one) and only add_data changes it.
C6_AppendOnly ==
    [][(pc # "new" /\ ~Truthy(ensemble)) =>
          /\ IsPrefix(training_data, training_data')
          /\ (training_data' # training_data => pc = "add_data")]_vars

\* C6 witness: the Simulate phase is about to run on a TrainingSet that a Query
\* phase has extended.
C6_Witness ==
    /\ pc = "simulate"
    /\ ~Truthy(ensemble)
    /\ n_query >= 1
    /\ Len(training_data) > InitSize

\* C7: a failed write_to_db does not abort the run (stated for a complete
\* configuration with num_iterations >= 1).
C7_PersistenceNonFatal ==
    (db_failed /\ missing = "none" /\ num_iterations >= 1) => pc # "aborted"

\* counter increments that go with a merge: all but those of final mode's
\* Evaluate phase (line 149), which merges nothing
MergeCounted ==
    parent_calls - (IF method = "final" THEN eval_counted ELSE 0)

FatalCauses == {"query", "trainer", "simulate", "evaluator", "bootstrap"}

\* C8: when a run aborts on a fatal error of a collaborator, the counter has
\* been incremented for exactly the structures that have been merged.
C8_AbortConsistent ==
    (pc = "aborted" /\ abortCause \in FatalCauses) => MergeCounted = merged

\* C9: a configuration error aborts the run before any Evaluate-phase oracle
\* call is counted, before any merge and before a second iteration begins.
C9_ConfigErrorEarly ==
    abortCause = "config" =>
        /\ eval_counted = 0
        /\ merged = 0
        /\ n_train <= 1

IntegerAboveOne(e) == e.t = "int" /\ e.v > 1

EnsembleOn == pc \notin {"new", "ctor_failed"} /\ Truthy(ensemble)

\* the structures of the batch add_data has passed to bootstrap_ensemble so far
Done == Len(entry.q) - Len(pending)

\* C11: with ensembling enabled, add_data calls bootstrap_ensemble once per
\* structure, in batch order, each call on the parent and the members the call
\* before it returned; when the loop is over the parent has grown by the batch
\* and every member comes from the last call.
C11_SequentialBootstrap ==
    (EnsembleOn /\ pc = "add_data") =>
        /\ bootstrap_calls = entry.calls + Done
        /\ parent_dataset = entry.pd \o SubSeq(entry.q, 1, Done)
        /\ Done >= 1 =>
             \A i \in DOMAIN training_data :
                /\ training_data[i].call = bootstrap_calls
                /\ training_data[i].parentLen = Len(parent_dataset)
                /\ training_data[i].prev = bootstrap_calls - 1

\* C11 witness: add_data has gone through a batch of two structures.
C11_Witness ==
    /\ EnsembleOn
    /\ pc = "add_data"
    /\ pending = <<>>
    /\ Len(entry.q) = 2
    /\ Len(parent_dataset) = Len(entry.pd) + 2
    /\ Len(training_data) = ensemble.v

\* C12: with ensembling enabled, after construction, at the start of every
\* Train phase and at exit (in every state that is not an abort) all members
\* come from the bootstrap_ensemble call that produced the current parent: the
\* latest call, on a parent of the current size.
C12_MembersOfCurrentParent ==
    (EnsembleOn /\ pc # "aborted") =>
        \A i \in DOMAIN training_data :
            /\ training_data[i].call = bootstrap_calls
            /\ training_data[i].parentLen = Len(parent_dataset)

\* C12 witness: a Train phase starts after a Query phase has added structures
\* to the ensemble.
C12_Witness ==
    /\ EnsembleOn
    /\ pc = "train"
    /\ n_query >= 1
    /\ bootstrap_calls >= 3
    /\ Len(parent_dataset) = InitSize + 2

\* C13: add_data on an empty batch changes nothing, with or without an
\* ensemble: no bootstrap_ensemble call, the same parent and training data,
\* the same counters, and it returns.
C13_EmptyAddDataNoOp ==
    [][(pc = "add_data" /\ entry.q = <<>>) =>
          /\ training_data' = training_data
          /\ parent_dataset' = parent_dataset
          /\ parent_calls' = parent_calls
          /\ iteration' = iteration
          /\ bootstrap_calls' = bootstrap_calls
          /\ pc' \in {"idle", "done", "train", "loop_end"}]_vars

\* C13 witness: add_data([]) called from outside on an ensemble learner has
\* returned.
C13_Witness ==
    /\ EnsembleOn
    /\ pc = "idle"
    /\ ret = "ext_idle"
    /\ ext_adds >= 1
    /\ entry.q = <<>>
    /\ parent_dataset = entry.pd

\* C14: with ensembling disabled the parent dataset and the training data hold
\* the same contents in every state after construction, so the Query Strategy
\* and the trainer are handed equal datasets.
C14_ParentIsTrainingSet ==
    (pc # "new" /\ ~Truthy(ensemble)) => parent_dataset = training_data

\* C14 witness: a Train phase starts on data that a Query phase and an outside
\* add_data call have both extended.
C14_Witness ==
    /\ pc = "train"
    /\ ~Truthy(ensemble)
    /\ ext_adds >= 1
    /\ n_query >= 1
    /\ Len(queried_images) >= 1
    /\ Len(parent_dataset) > InitSize + Len(queried_images)

\* the loop is about to run a Query phase (line 92 holds)
QueryDue == pc = "loop_top" /\ ~f_terminate /\ QueryGuard(iteration, method)

\* the Query Strategy is not called in neb_iter mode; when a Query phase is due
\* the candidates are the trajectory of the Simulate phase of the iteration
\* before; once an iteration has trained, all iterations of the call but the
\* first have queried once
QueryDiscipline ==
    /\ method = "neb_iter" => n_query = 0
    /\ QueryDue => sample_candidates = iteration - 1
    /\ (pc = "simulate" /\ method \in {"iter", "final"})
          => n_query = n_train - 1

\* C15: the Query Strategy is never called in neb_iter mode nor before a
\* Simulate phase has produced candidates; in iter and final mode it is called
\* once at the start of every iteration but the first, on the trajectory of the
\* iteration before; in every call of learn, a second call included.
C15_QueryAfterSimulate == QueryDiscipline

\* C15 restricted to the first call of learn on a learner
C15_QueryAfterSimulateFirstCall == calls <= 1 => QueryDiscipline

\* a Train phase is about to start
TrainReady ==
    \/ pc = "train"
    \/ pc = "loop_top" /\ ~f_terminate /\ ~QueryGuard(iteration, method)

\* every structure handed to the learner so far, in the order it was returned
AllReturned == [i \in 1..created |-> i]

C17_ConvergenceCheckEveryIteration ==
    [][/\ (pc = "evaluate" /\ method = "iter" /\ pc' # "aborted") =>
             IF convergence_check
             THEN /\ parent_calls' = parent_calls + 1
                  /\ pc' = "add_data"
                  /\ ret' = "iter"
                  /\ entry'.q = pending'
                  /\ UNCHANGED <<training_data, parent_dataset>>
             ELSE /\ pc' = "loop_end"
                  /\ UNCHANGED <<parent_calls, training_data, parent_dataset>>
       /\ (pc = "add_data" /\ ret = "iter" /\ pc' = "loop_end") =>
             /\ parent_dataset' = entry.pd \o entry.q
             /\ ~Truthy(ensemble) => training_data' = parent_dataset'
             /\ parent_calls' = parent_calls]_vars

\* C17 witness: the evaluator has returned terminate = True with
\* convergence_check enabled, and its tested structure has been counted and
\* merged.
C17_Witness ==
    /\ pc = "loop_end"
    /\ method = "iter"
    /\ convergence_check
    /\ terminate = "True"
    /\ ret = "iter"
    /\ Len(entry.q) = 1
    /\ parent_dataset = entry.pd \o entry.q
    /\ eval_counted = n_eval
    /\ parent_calls = oracle_sent

\* C18: in final mode every Evaluate phase that returns, terminating or not,
\* adds exactly one to the oracle call counter and leaves both datasets alone;
\* so a run from a fresh learner returns with the counter equal to the
\* iterations run plus the structures the Query phases returned.
C18_FinalOneCallPerEvaluate ==
    [][/\ (pc = "evaluate" /\ method = "final" /\ pc' = "loop_end") =>
             /\ parent_calls' = parent_calls + 1
             /\ UNCHANGED <<training_data, parent_dataset>>
       /\ (pc = "plot" /\ pc' = "done" /\ method = "final" /\ calls = 1) =>
             parent_calls' = iteration' + merged']_vars

\* C18 witness: a final run has returned after two iterations and a Query phase
\* that returned two structures: four oracle calls.
C18_Witness ==
    /\ pc = "done"
    /\ method = "final"
    /\ calls = 1
    /\ iteration = 2
    /\ merged = 2
    /\ parent_calls = 4

\* the history of the call holds one record per iteration of the call, in
\* order, as many as the iterations_run about to be returned and as the Train
\* phases of the call
HistoryMatches ==
    /\ Len(convergence_criteria_list) = iteration
    /\ iteration = n_train
    /\ \A i \in DOMAIN convergence_criteria_list :
          convergence_criteria_list[i] = i

C19_HistoryMatchesIterationsFirstCall == (Left /\ calls <= 1) => HistoryMatches

\* learn has just returned (no add_data call from outside since)
Returned == pc = "done" /\ ret # "ext_done"

\* C20: in final mode and in iter mode without convergence_check, the surrogate
\* learn returns is that of the last iteration's Train phase and was trained on
\* the training data the learner holds at exit.
C20_ReturnedSurrogateIsCurrent ==
    (Returned /\ (method = "final" \/ (method = "iter" /\ ~convergence_check)))
        => (trained_calc = iteration - 1 /\ trained_on = training_data)

\* C20 witness: a final run has returned after a Query phase that added
\* structures before its last Train phase.
C20_Witness ==
    /\ Returned
    /\ method = "final"
    /\ n_query >= 1
    /\ Len(queried_images) >= 1
    /\ trained_on = training_data

====
